---- MODULE Spec2Model ----
(***************************************************************************)
(* Financial document analyser: text extraction (tools/financial_tools.py)  *)
(* and the analysis pipeline (api/routes, services/analysis_service.py).    *)
(*                                                                          *)
(* Text is a sequence of one-character strings, so that the regular         *)
(* expressions of _clean_financial_text are computed character by           *)
(* character as re.sub computes them.                                       *)
(***************************************************************************)
EXTENDS Integers, Sequences, FiniteSets, TLC

VARIABLES
    \* ---- normalisation harness (SpecClean)
    cleanIn,      \* the string handed to _clean_financial_text
    cleanOnce,    \* _clean_financial_text(cleanIn), or Unset
    cleanTwice,   \* _clean_financial_text(cleanOnce), or Unset
    \* ---- read_document (SpecExtract)
    file,         \* the file on disk: [exists, size, ext]
    xpc,          \* position of read_document
    attempts,     \* PDF cascade: the extractor calls made so far, in order
    xresult,      \* text returned by read_document, or Unset
    xerror,       \* error raised by read_document, or NoError
    \* ---- documents and pipeline runs (Spec)
    documents,    \* the "documents" collection: sequence of records, id = index
    runs,         \* background tasks: sequence of run records, id = index
    \* ---- single functions called on their own (SpecTags, SpecMetrics, ...)
    call          \* the call under study: its function, arguments and outcome

cleanVars == <<cleanIn, cleanOnce, cleanTwice>>
extractVars == <<file, xpc, attempts, xresult, xerror>>
pipeVars == <<documents, runs>>
vars == <<cleanIn, cleanOnce, cleanTwice, file, xpc, attempts, xresult, xerror,
          documents, runs, call>>

Unset == <<"unset">>
NoError == "none"

-----------------------------------------------------------------------------
(* Characters and strings *)

\* str.isspace / regex \s, over the characters the model uses
Whitespace == {" ", "\t", "\n", "\r", "\f"}

\* regex \d
Digits == {"0", "1", "2", "3", "4", "5", "6", "7", "8", "9"}

\* re.IGNORECASE folding of the ASCII letters
UpperCase ==
    <<"A", "B", "C", "D", "E", "F", "G", "H", "I", "J", "K", "L", "M",
      "N", "O", "P", "Q", "R", "S", "T", "U", "V", "W", "X", "Y", "Z">>
LowerCase ==
    <<"a", "b", "c", "d", "e", "f", "g", "h", "i", "j", "k", "l", "m",
      "n", "o", "p", "q", "r", "s", "t", "u", "v", "w", "x", "y", "z">>

Folded == [c \in {UpperCase[k] : k \in 1..26} |->
              LowerCase[CHOOSE k \in 1..26 : UpperCase[k] = c]]

Lower(c) == IF c \in DOMAIN Folded THEN Folded[c] ELSE c

SetMin(S) == CHOOSE k \in S : \A m \in S : k <= m
SetMax(S) == CHOOSE k \in S : \A m \in S : k >= m

\* last index of the maximal run of characters of class C that starts at i
\* (i - 1 when s[i] is not in C or i is past the end)
RunEnd(s, i, C) ==
    LET stops == {k \in i..Len(s) : s[k] \notin C}
    IN  IF stops = {} THEN Len(s) ELSE SetMin(stops) - 1

\* s[i..] starts with the literal lit, compared case-insensitively
LitAt(s, i, lit) ==
    /\ i + Len(lit) - 1 <= Len(s)
    /\ \A k \in 1..Len(lit) : Lower(s[i + k - 1]) = lit[k]

\* str.strip(): drop the leading and the trailing run of whitespace
Strip(s) ==
    LET lead == RunEnd(s, 1, Whitespace)
        trail == {k \in (lead + 1)..Len(s) : \A m \in k..Len(s) : s[m] \in Whitespace}
    IN  SubSeq(s, lead + 1, Len(s) - Cardinality(trail))

\* decimal digits of a natural number, as str(n) prints them
RECURSIVE IntStr(_)
IntStr(n) ==
    LET d == <<"0", "1", "2", "3", "4", "5", "6", "7", "8", "9">>
    IN  IF n < 10 THEN <<d[n + 1]>> ELSE Append(IntStr(n \div 10), d[(n % 10) + 1])

-----------------------------------------------------------------------------
(* _clean_financial_text: the seven substitutions, then strip *)

\* index of the last character of the match of pattern pat that starts at i,
\* or 0 when pat does not match at i.  All seven patterns match at least one
\* character, and their greedy quantifiers leave one possible end per start.
MatchEnd(pat, s, i) ==
    CASE pat = "crlf" ->          \* \r\n?
           IF s[i] # "\r" THEN 0
           ELSE IF i + 1 <= Len(s) /\ s[i + 1] = "\n" THEN i + 1 ELSE i
      [] pat = "blanks" ->        \* [ \t]+
           IF s[i] \notin {" ", "\t"} THEN 0 ELSE RunEnd(s, i, {" ", "\t"})
      [] pat = "nl3" ->           \* \n\s*\n\s*\n
           IF s[i] # "\n" THEN 0
           ELSE LET nls == {k \in i..RunEnd(s, i, Whitespace) : s[k] = "\n"}
                IN  IF Cardinality(nls) >= 3 THEN SetMax(nls) ELSE 0
      [] pat = "nl2" ->           \* \n\s*\n
           IF s[i] # "\n" THEN 0
           ELSE LET nls == {k \in i..RunEnd(s, i, Whitespace) : s[k] = "\n"}
                IN  IF Cardinality(nls) >= 2 THEN SetMax(nls) ELSE 0
      [] pat = "dollar" ->        \* \$\s+
           IF s[i] # "$" THEN 0
           ELSE LET e == RunEnd(s, i + 1, Whitespace)
                IN  IF e >= i + 1 THEN e ELSE 0
      [] pat = "thousands" ->     \* (\d)\s+,\s*(\d)
           IF s[i] \notin Digits THEN 0
           ELSE LET e1 == RunEnd(s, i + 1, Whitespace)
                    e2 == RunEnd(s, e1 + 2, Whitespace)
                IN  IF /\ e1 >= i + 1
                       /\ e1 + 1 <= Len(s) /\ s[e1 + 1] = ","
                       /\ e2 + 1 <= Len(s) /\ s[e2 + 1] \in Digits
                    THEN e2 + 1 ELSE 0
      [] pat = "pageof" ->        \* Page \d+ of \d+   (IGNORECASE)
           IF ~LitAt(s, i, <<"p", "a", "g", "e", " ">>) THEN 0
           ELSE LET d1 == RunEnd(s, i + 5, Digits)
                    d2 == RunEnd(s, d1 + 5, Digits)
                IN  IF /\ d1 >= i + 5
                       /\ LitAt(s, d1 + 1, <<" ", "o", "f", " ">>)
                       /\ d2 >= d1 + 5
                    THEN d2 ELSE 0

\* the replacement text for the match s[i..j] of pat
Repl(pat, s, i, j) ==
    CASE pat = "crlf" -> <<"\n">>
      [] pat = "blanks" -> <<" ">>
      [] pat = "nl3" -> <<"\n", "\n">>
      [] pat = "nl2" -> <<"\n", "\n">>
      [] pat = "dollar" -> <<"$">>
      [] pat = "thousands" -> <<s[i], ",", s[j]>>
      [] pat = "pageof" -> <<>>

\* re.sub(pat, repl, s): leftmost non-overlapping matches, scanning from i.
\* starts holds every index at which pat matches; the scan copies the text up
\* to the next such index at or after i, replaces the match and resumes
\* behind it.
RECURSIVE re_sub_from(_, _, _, _, _)
re_sub_from(pat, s, i, acc, starts) ==
    LET ahead == {k \in starts : k >= i}
    IN  IF ahead = {} THEN acc \o SubSeq(s, i, Len(s))
        ELSE LET k == SetMin(ahead)
                 j == MatchEnd(pat, s, k)
             IN  re_sub_from(pat, s, j + 1,
                             acc \o SubSeq(s, i, k - 1) \o Repl(pat, s, k, j),
                             starts)

re_sub(pat, s) ==
    re_sub_from(pat, s, 1, <<>>, {k \in 1..Len(s) : MatchEnd(pat, s, k) >= k})

\* the substitutions of _clean_financial_text in source order
CleanOrder == <<"crlf", "blanks", "nl3", "dollar", "thousands", "pageof", "nl2">>

RECURSIVE ApplySubs(_, _, _)
ApplySubs(order, k, s) ==
    IF k > Len(order) THEN s ELSE ApplySubs(order, k + 1, re_sub(order[k], s))

_clean_financial_text(text) ==
    IF text = <<>> THEN <<>> ELSE Strip(ApplySubs(CleanOrder, 1, text))

-----------------------------------------------------------------------------
(* Normalisation harness: _clean_financial_text applied once and twice *)

MaxTokens == 5

Str_Page1of2 == <<"P", "a", "g", "e", " ", "1", " ", "o", "f", " ", "2">>

\* building blocks of the input strings
Tokens ==
    { <<"a">>, <<" ">>, <<"\n">>, <<"\t">>, <<"\r">>, <<"$">>, <<",">>, <<"1">>,
      Str_Page1of2 }

RECURSIVE TokenStrings(_)
TokenStrings(n) ==
    IF n = 0 THEN {<<>>}
    ELSE LET shorter == TokenStrings(n - 1)
         IN  shorter \cup {s \o t : s \in shorter, t \in Tokens}

ExtractIdle ==
    /\ file = [exists |-> FALSE, size |-> 0, ext |-> ""]
    /\ xpc = "idle"
    /\ attempts = <<>>
    /\ xresult = Unset
    /\ xerror = NoError

PipeIdle ==
    /\ documents = <<>>
    /\ runs = <<>>

CleanIdle ==
    /\ cleanIn = <<>>
    /\ cleanOnce = Unset
    /\ cleanTwice = Unset

\* no single function is under study
CallIdle == call = [fn |-> "none"]

InitClean ==
    /\ cleanIn \in TokenStrings(MaxTokens)
    /\ cleanOnce = Unset
    /\ cleanTwice = Unset
    /\ ExtractIdle
    /\ PipeIdle
    /\ CallIdle

CleanFirst ==
    /\ cleanOnce = Unset
    /\ cleanOnce' = _clean_financial_text(cleanIn)
    /\ UNCHANGED <<cleanIn, cleanTwice, extractVars, pipeVars, call>>

CleanSecond ==
    /\ cleanOnce # Unset
    /\ cleanTwice = Unset
    /\ cleanTwice' = _clean_financial_text(cleanOnce)
    /\ UNCHANGED <<cleanIn, cleanOnce, extractVars, pipeVars, call>>

NextClean == CleanFirst \/ CleanSecond

SpecClean == InitClean /\ [][NextClean]_vars

-----------------------------------------------------------------------------
(* The extractors of FinancialDocumentTool *)

\* settings.MAX_FILE_SIZE: 100 * 1024 * 1024
MAX_FILE_SIZE == 104857600

\* "Minimum viable content" of _extract_pdf
MIN_VIABLE == 50

MaxPages == 2
MaxParagraphs == 2

None == <<"None">>

Xs(n) == [k \in 1..n |-> "x"]

\* python's `value or ""`
OrEmpty(t) == IF t = None THEN <<>> ELSE t

RECURSIVE Join(_, _)
Join(parts, sep) ==
    IF parts = <<>> THEN <<>>
    ELSE IF Len(parts) = 1 THEN parts[1]
    ELSE parts[1] \o sep \o Join(Tail(parts), sep)

\* variant: the tag carries enumerate's index, counted from 0
PageBlock_zeroBased(page_num, text) ==
    <<"\n", "[", "P", "a", "g", "e", " ">> \o IntStr(page_num) \o <<"]", "\n">>
        \o text \o <<"\n">>

\* f"\n[Page {page_num + 1}]\n{text}\n", page_num counted from 0 by enumerate
PageBlock(page_num, text) ==
    <<"\n", "[", "P", "a", "g", "e", " ">> \o IntStr(page_num + 1) \o <<"]", "\n">>
        \o text \o <<"\n">>

\* f"\n[Table {table_num + 1}]\n{table_text}\n"
TableBlock(table_num, table_text) ==
    <<"\n", "[", "T", "a", "b", "l", "e", " ">> \o IntStr(table_num + 1) \o <<"]", "\n">>
        \o table_text \o <<"\n">>

\* _format_table_text: rows of cells joined by " | ", rows joined by "\n";
\* empty rows are skipped, a None or empty cell is rendered as ""
FormatRow(row) ==
    Join([k \in 1..Len(row) |->
            IF row[k] = None \/ row[k] = <<>> THEN <<>> ELSE Strip(row[k])],
         <<" ", "|", " ">>)

_format_table_text(table) ==
    IF table = <<>> THEN <<>>
    ELSE LET rows == SelectSeq(table, LAMBDA row : row # <<>>)
         IN  Join([k \in 1..Len(rows) |-> FormatRow(rows[k])], <<"\n">>)

\* the table blocks of one page
RECURSIVE TableBlocks(_, _)
TableBlocks(tables, k) ==
    IF k > Len(tables) THEN <<>>
    ELSE TableBlock(k - 1, _format_table_text(tables[k])) \o TableBlocks(tables, k + 1)

\* the inner try of _extract_with_pdfplumber: when extract_tables() raises the
\* page keeps its text and gets no table block
PageTables(page) == IF page.tablesRaise THEN <<>> ELSE TableBlocks(page.tables, 1)

\* _extract_with_pdfplumber over the pages [text, tables] the library yields
RECURSIVE _extract_with_pdfplumber_from(_, _)
_extract_with_pdfplumber_from(pages, n) ==
    IF n > Len(pages) THEN <<>>
    ELSE PageBlock(n - 1, OrEmpty(pages[n].text)) \o PageTables(pages[n])
            \o _extract_with_pdfplumber_from(pages, n + 1)

_extract_with_pdfplumber(pages) == _extract_with_pdfplumber_from(pages, 1)

\* _extract_with_pymupdf and _extract_with_pypdf2: page blocks only
RECURSIVE PlainPages(_, _)
PlainPages(pages, n) ==
    IF n > Len(pages) THEN <<>>
    ELSE PageBlock(n - 1, OrEmpty(pages[n].text)) \o PlainPages(pages, n + 1)

_extract_with_pymupdf(pages) == PlainPages(pages, 1)

_extract_with_pypdf2(pages) == PlainPages(pages, 1)

\* variant: the structural extractor listed before the table-aware one
extractors_swapped == <<"pymupdf", "pdfplumber", "pypdf2">>

\* the `extractors` list of _extract_pdf, in source order
extractors == <<"pdfplumber", "pymupdf", "pypdf2">>

\* the text an extractor returns for what its library yields
ExtractorText(name, pages) ==
    CASE name = "pdfplumber" -> _extract_with_pdfplumber(pages)
      [] name = "pymupdf" -> _extract_with_pymupdf(pages)
      [] name = "pypdf2" -> _extract_with_pypdf2(pages)

\* variant: the gate written with >= instead of >
Viable_atLeast(text) == Len(Strip(text)) >= MIN_VIABLE

\* the gate of _extract_pdf: len(text.strip()) > 50
Viable(text) == Len(Strip(text)) > MIN_VIABLE

\* _extract_docx: non-blank paragraphs joined by "\n", then normalised
_extract_docx(paragraphs) ==
    _clean_financial_text(
        Join(SelectSeq(paragraphs, LAMBDA t : Strip(t) # <<>>), <<"\n">>))

\* _extract_txt: the decoded file content, normalised
_extract_txt(content) == _clean_financial_text(content)

\* Path.suffix.lower() over the suffixes the model uses
LowerExt(ext) ==
    CASE ext = ".PDF" -> ".pdf"
      [] ext = ".TXT" -> ".txt"
      [] OTHER -> ext

-----------------------------------------------------------------------------
(* read_document and the PDF cascade, one extractor call per step *)

SeqsUpTo(S, n) == UNION {[1..k -> S] : k \in 0..n}

\* one page at the threshold: "[Page 1]\n" is 9 characters, so a single page
\* of MIN_VIABLE - 9 characters strips to exactly MIN_VIABLE
AtThreshold == Xs(MIN_VIABLE - 9)
AboveThreshold == Xs(MIN_VIABLE - 8)
\* as long as AboveThreshold, but almost all blanks
Sparse == <<"a">> \o [k \in 1..(MIN_VIABLE - 10) |-> " "] \o <<"b">>

PageTexts == {<<>>, AtThreshold, AboveThreshold, Sparse}

SampleTable == << <<<<"c">>, None>>, <<>>, <<<<" ", "d">>, <<"e">>>> >>

\* a page as pdfplumber sees it: its text, its tables, and whether
\* extract_tables() raises on it
PlumberPages ==
    [text : PageTexts, tables : {<<>>, <<SampleTable>>}, tablesRaise : {FALSE}]
        \cup [text : PageTexts, tables : {<<>>}, tablesRaise : {TRUE}]

Threw == [threw |-> TRUE, parts |-> <<>>]

Yielded(parts) == [threw |-> FALSE, parts |-> parts]

\* the pages of a longer file without any text or table (a scan)
BlankPages == 5

BlankDocument(name) ==
    [k \in 1..BlankPages |->
        IF name = "pdfplumber" THEN [text |-> <<>>, tables |-> <<>>, tablesRaise |-> FALSE]
        ELSE [text |-> <<>>]]

\* what a PDF library yields for the file: it raises, or it yields pages
LibraryYields(name) ==
    {Threw, Yielded(BlankDocument(name))} \cup
    IF name = "pdfplumber"
    THEN {Yielded(pp) : pp \in SeqsUpTo(PlumberPages, MaxPages)}
    ELSE {Yielded(pp) : pp \in SeqsUpTo([text : PageTexts], MaxPages)}

ParagraphTexts == {<<>>, <<" ", " ">>, <<"a", " ", " ", "b">>, Xs(MIN_VIABLE + 1)}

DocxYields == {Threw} \cup {Yielded(pp) : pp \in SeqsUpTo(ParagraphTexts, MaxParagraphs)}

TxtYields ==
    {Threw} \cup
    {Yielded(t) : t \in {<<>>, <<" ", "\n">>, <<"a", "\r", "\n", "b">>, Xs(MIN_VIABLE),
                         Xs(MIN_VIABLE + 1), Sparse}}

Suffixes == {".pdf", ".docx", ".txt", ".TXT", ".csv", ""}

InitExtract ==
    /\ file \in [exists : BOOLEAN,
                 size : {MAX_FILE_SIZE, MAX_FILE_SIZE + 1},
                 ext : Suffixes]
    /\ xpc = "call"
    /\ attempts = <<>>
    /\ xresult = Unset
    /\ xerror = NoError
    /\ CleanIdle
    /\ PipeIdle
    /\ CallIdle

\* variant: the size test written with >= instead of >
TooLarge_atLeast(size) == size >= MAX_FILE_SIZE

\* path.stat().st_size > settings.MAX_FILE_SIZE
TooLarge(size) == size > MAX_FILE_SIZE

Raise(e) ==
    /\ xerror' = e
    /\ xpc' = "raised"
    /\ UNCHANGED xresult

Return(text) ==
    /\ xresult' = text
    /\ xpc' = "returned"
    /\ UNCHANGED xerror

\* read_document up to the dispatch on the suffix; DOCX and TXT extraction
\* run to completion here, PDF enters the cascade
read_document ==
    /\ xpc = "call"
    /\ IF ~file.exists THEN Raise("FileNotFoundError")
       ELSE IF TooLarge(file.size) THEN Raise("ValueError: File too large")
       ELSE IF LowerExt(file.ext) = ".pdf"
            THEN xpc' = "pdf" /\ UNCHANGED <<xresult, xerror>>
       ELSE IF LowerExt(file.ext) = ".docx"
            THEN \E y \in DocxYields :
                    IF y.threw THEN Raise("LibraryError")
                    ELSE Return(_extract_docx(y.parts))
       ELSE IF LowerExt(file.ext) = ".txt"
            THEN \E y \in TxtYields :
                    IF y.threw THEN Raise("LibraryError")
                    ELSE Return(_extract_txt(y.parts))
       ELSE Raise("ValueError: Unsupported file type")
    /\ UNCHANGED <<file, attempts, cleanVars, pipeVars, call>>

\* what one iteration of the loop of _extract_pdf does with what the
\* extractor yields: "return" the normalised text, or "continue"
LoopBody(name, y) ==
    IF y.threw THEN [do |-> "continue", text |-> <<>>]
    ELSE LET text == ExtractorText(name, y.parts)
         IN  IF Viable(text)
             THEN [do |-> "return", text |-> _clean_financial_text(text)]
             ELSE [do |-> "continue", text |-> <<>>]

\* one iteration of `for extractor in extractors`
_extract_pdf_iterate ==
    /\ xpc = "pdf"
    /\ Len(attempts) < Len(extractors)
    /\ LET name == extractors[Len(attempts) + 1]
       IN  \E y \in LibraryYields(name) :
              LET body == LoopBody(name, y)
              IN  /\ attempts' = Append(attempts, [extractor |-> name, yield |-> y])
                  /\ IF body.do = "return"
                     THEN Return(body.text)
                     ELSE UNCHANGED <<xpc, xresult, xerror>>
    /\ UNCHANGED <<file, cleanVars, pipeVars, call>>

\* the loop fell through: raise Exception("All PDF extractors failed ...")
_extract_pdf_exhausted ==
    /\ xpc = "pdf"
    /\ Len(attempts) >= Len(extractors)
    /\ Raise("Exception: All PDF extractors failed")
    /\ UNCHANGED <<file, attempts, cleanVars, pipeVars, call>>

NextExtract == read_document \/ _extract_pdf_iterate \/ _extract_pdf_exhausted

SpecExtract == InitExtract /\ [][NextExtract]_vars

-----------------------------------------------------------------------------
(* One extractor called on its own, over pages with short texts *)

MaxTagPages == 2

\* page.extract_text() of pdfplumber and PyPDF2 may give None; page.get_text()
\* of PyMuPDF gives a str
TagPageTexts(name) == IF name = "pymupdf" THEN {<<>>, <<"x">>} ELSE {None, <<>>, <<"x">>}

SmallTable == << <<<<"y">>>> >>

\* the pages a library yields to the extractor `name`
TagPages(name) ==
    IF name = "pdfplumber"
    THEN [text : TagPageTexts(name), tables : {<<>>, <<SampleTable>>, <<SmallTable, SampleTable>>},
          tablesRaise : {FALSE}]
            \cup [text : TagPageTexts(name), tables : {<<>>}, tablesRaise : {TRUE}]
    ELSE [text : TagPageTexts(name)]

InitTags ==
    /\ \E name \in {"pdfplumber", "pymupdf", "pypdf2"} :
          call \in [fn : {"extractor"}, name : {name},
                    pages : SeqsUpTo(TagPages(name), MaxTagPages),
                    pc : {"called"}, text : {<<>>}]
    /\ CleanIdle
    /\ ExtractIdle
    /\ PipeIdle

\* the extractor runs over all pages and returns full_text
extractor_call ==
    /\ call.fn = "extractor"
    /\ call.pc = "called"
    /\ call' = [call EXCEPT !.pc = "returned",
                            !.text = ExtractorText(call.name, call.pages)]
    /\ UNCHANGED <<cleanVars, extractVars, pipeVars>>

NextTags == extractor_call

SpecTags == InitTags /\ [][NextTags]_vars

-----------------------------------------------------------------------------
(* Documents, the analyze endpoint and process_financial_document           *)
(* (api/routes/documents.py, api/routes/analysis.py,                        *)
(* services/analysis_service.py).  A document's id is its index in          *)
(* `documents`, a run's id its index in `runs`.  Every await on the         *)
(* database or on the crew is a step; the code between two awaits runs      *)
(* without interleaving on the event loop.                                  *)

MaxDocs == 2
MaxRuns == 2

\* the users who send requests, and those among them who upload
Users == {"u1", "u2"}
Uploaders == {"u1"}

\* the query of the n-th analyze request, already stripped and cut to 2000
\* characters: requests carry pairwise distinct queries
RequestQuery(n) == <<"query", n>>

\* the file names clients upload under; two uploads may carry the same name
FileNames == {"report.pdf", "notes.txt"}

\* dst = uploads / file.filename
UploadPath(filename) == <<"uploads", filename>>

\* DocumentStatus
UPLOADED == "uploaded"
PROCESSING == "processing"
COMPLETED == "completed"
FAILED == "failed"

\* Optional fields holding None
Null == "<null>"
NoAnalysis == [none |-> TRUE]
NoOutput == [none |-> TRUE]
NoDoc == [none |-> TRUE]
NoException == [type |-> "none", msg |-> Null]

\* variant: the crew built with two tasks exchanged
tasks_reordered == <<"verification", "risk", "analysis", "recommendation">>

\* Crew(tasks=[vt, fat, rt, ir], process=Process.sequential)
tasks == <<"verification", "analysis", "risk", "recommendation">>

\* str(e) of the error a stage's delegated work raises
StageFailure ==
    [verification |-> "verification failed", analysis |-> "analysis failed",
     risk |-> "risk failed", recommendation |-> "recommendation failed"]

StageError(task) == [type |-> "stage", msg |-> StageFailure[task]]
DbError(op) == [type |-> "db", msg |-> op]

\* the output a task of run r produces; outputs are told apart by the run
\* and the task that produced them.  The Task objects are built anew by
\* every call (lines 22-41); the agents they are given are the objects of
\* the agents module, whose inner state belongs to the crew library and is
\* not part of this model.
TaskOutput(r, task) == [run |-> r, task |-> task]

InitPipe ==
    /\ documents = <<>>
    /\ runs = <<>>
    /\ CleanIdle
    /\ ExtractIdle
    /\ CallIdle

\* upload_document: store the file under uploads/<filename> and insert the
\* document (requests rejected by _validate_file or the size check change
\* nothing)
upload_document(user, filename) ==
    /\ Len(documents) < MaxDocs
    /\ documents' = Append(documents,
          [status |-> UPLOADED, analysis |-> NoAnalysis, error |-> Null,
           processed_date |-> Null, uploaded_by |-> user,
           file_path |-> UploadPath(filename)])
    /\ UNCHANGED <<runs, cleanVars, extractVars, call>>

\* the background task the endpoint enqueues
NewRun(doc_id, user, query) ==
    [document_id |-> doc_id, query |-> query, file_path |-> documents[doc_id].file_path,
     user_id |-> user, pc |-> "queued", doc |-> NoDoc,
     outputs |-> [t \in {} |-> NoOutput], trace |-> <<>>,
     exc |-> NoException, saves |-> <<>>]

\* analyze_document_endpoint puts no condition on the document's status
MayEnqueue(doc) == TRUE

\* analyze_document_endpoint: 404 for an unknown id and 403 for another
\* user's document change nothing; otherwise the document is saved as
\* PROCESSING and the run is enqueued
analyze_document_endpoint(doc_id, user, query) ==
    /\ Len(runs) < MaxRuns
    /\ doc_id \in 1..Len(documents)
    /\ documents[doc_id].uploaded_by = user
    /\ MayEnqueue(documents[doc_id])
    /\ documents' = [documents EXCEPT ![doc_id].status = PROCESSING]
    /\ runs' = Append(runs, NewRun(doc_id, user, query))
    /\ UNCHANGED <<cleanVars, extractVars, call>>

\* doc.save(): the whole local copy replaces the stored document
Save(r, doc) ==
    /\ documents' = [documents EXCEPT ![runs[r].document_id] = doc]

\* what a run remembers of a save it made: the document written to and the
\* status and error written (history, read by the properties only)
Saved(r, doc) == [doc_id |-> runs[r].document_id, status |-> doc.status, error |-> doc.error]

\* variant: the except branch puts the document back to UPLOADED
FailedCopy_backToUploaded(doc, e) ==
    [doc EXCEPT !.status = UPLOADED, !.processed_date = "utcnow", !.error = e.msg]

\* the except branch: record FAILED and the message on the local copy
FailedCopy(doc, e) ==
    [doc EXCEPT !.status = FAILED, !.processed_date = "utcnow", !.error = e.msg]

\* process_financial_document, lines 16-18: load the document.  The lookup
\* is outside the try block, so an error of the database leaves the function
\* at once.
process_lookup(r) ==
    /\ runs[r].pc = "queued"
    /\ \/ runs' = [runs EXCEPT ![r].pc = "kickoff",
                               ![r].doc = documents[runs[r].document_id]]
       \/ runs' = [runs EXCEPT ![r].pc = "raised", ![r].exc = DbError("get")]
    /\ UNCHANGED <<documents, cleanVars, extractVars, call>>

\* the run after its next task returned: the output is kept on the task and
\* the crew moves on; after the last task kickoff_async returns
AfterTaskReturns(r, task) ==
    [runs[r] EXCEPT
        !.outputs = [t \in (DOMAIN runs[r].outputs) \cup {task} |->
                        IF t = task THEN TaskOutput(r, task) ELSE runs[r].outputs[t]],
        !.trace = Append(runs[r].trace, task),
        !.pc = IF Len(runs[r].trace) + 1 = Len(tasks) THEN "assemble" ELSE "kickoff"]

\* variant: a failed task is skipped and the crew goes on with the next one
AfterTaskRaises_continue(r, task) ==
    [runs[r] EXCEPT
        !.trace = Append(runs[r].trace, task),
        !.pc = IF Len(runs[r].trace) + 1 = Len(tasks) THEN "assemble" ELSE "kickoff"]

\* the run after its next task raised: the error leaves kickoff_async and
\* the except branch saves the FAILED copy and re-raises
AfterTaskRaises(r, task) ==
    [runs[r] EXCEPT
        !.trace = Append(runs[r].trace, task),
        !.pc = "raised",
        !.exc = StageError(task),
        !.doc = FailedCopy(runs[r].doc, StageError(task)),
        !.saves = Append(runs[r].saves,
                         Saved(r, FailedCopy(runs[r].doc, StageError(task))))]

\* a run whose function has returned or raised keeps no local document
Left(run) == IF run.pc \in {"raised", "returned"} THEN [run EXCEPT !.doc = NoDoc] ELSE run

\* crew.kickoff_async, one task per step, in the order of `tasks`
run_task(r) ==
    /\ runs[r].pc = "kickoff"
    /\ LET task == tasks[Len(runs[r].trace) + 1]
       IN  \/ /\ runs' = [runs EXCEPT ![r] = AfterTaskReturns(r, task)]
              /\ UNCHANGED documents
           \/ LET after == AfterTaskRaises(r, task)
              IN  /\ runs' = [runs EXCEPT ![r] = Left(after)]
                  /\ IF after.pc = "raised"
                     THEN Save(r, after.doc)
                     ELSE UNCHANGED documents
    /\ UNCHANGED <<cleanVars, extractVars, call>>

\* python's task.output of a task that has not run
OutputOf(run, task) ==
    IF task \in DOMAIN run.outputs THEN run.outputs[task] ELSE NoOutput

\* variant: the payload is read from the task objects of the first run, as
\* if the tasks were module-level objects shared by every run
Payload_sharedTasks(r) ==
    [verification |-> OutputOf(runs[1], "verification"),
     analysis |-> OutputOf(runs[1], "analysis"),
     risk |-> OutputOf(runs[1], "risk"),
     recommendation |-> OutputOf(runs[1], "recommendation"),
     query_used |-> runs[r].query,
     source |-> runs[r].file_path]

\* the payload dictionary of lines 57-65 (generated_at, a timestamp, left out)
Payload(r) ==
    [verification |-> OutputOf(runs[r], "verification"),
     analysis |-> OutputOf(runs[r], "analysis"),
     risk |-> OutputOf(runs[r], "risk"),
     recommendation |-> OutputOf(runs[r], "recommendation"),
     query_used |-> runs[r].query,
     source |-> runs[r].file_path]

\* variant: the success branch leaves the error field as it was
CompletedCopy_keepsError(doc, payload) ==
    [doc EXCEPT !.analysis = payload, !.status = COMPLETED, !.processed_date = "utcnow"]

\* lines 70-74: the payload, COMPLETED, the date, and error = None
CompletedCopy(doc, payload) ==
    [doc EXCEPT !.analysis = payload, !.status = COMPLETED,
                !.processed_date = "utcnow", !.error = Null]

\* lines 52-75 and the except branch: build the payload, save the document as
\* COMPLETED and return "OK"; when that save raises, the except branch saves
\* the copy as FAILED with the error's message and re-raises
process_finish(r) ==
    /\ runs[r].pc = "assemble"
    /\ LET done == CompletedCopy(runs[r].doc, Payload(r))
           failed == FailedCopy(done, DbError("save"))
       IN  \/ /\ runs' = [runs EXCEPT ![r].pc = "returned", ![r].doc = NoDoc,
                             ![r].saves = Append(runs[r].saves, Saved(r, done))]
              /\ Save(r, done)
           \/ /\ runs' = [runs EXCEPT ![r].pc = "raised", ![r].doc = NoDoc,
                             ![r].exc = DbError("save"),
                             ![r].saves = Append(runs[r].saves, Saved(r, failed))]
              /\ Save(r, failed)
    /\ UNCHANGED <<cleanVars, extractVars, call>>

\* get_document_detail for the owner or an admin: the stored fields as they
\* are (400, 404 and 403 return nothing of the document)
get_document_detail(doc_id) ==
    [status |-> documents[doc_id].status,
     processed_date |-> documents[doc_id].processed_date,
     analysis |-> documents[doc_id].analysis,
     error |-> documents[doc_id].error]

Next ==
    \/ \E u \in Uploaders, f \in FileNames : upload_document(u, f)
    \/ \E d \in 1..MaxDocs, u \in Users :
          analyze_document_endpoint(d, u, RequestQuery(Len(runs) + 1))
    \/ \E r \in 1..Len(runs) : process_lookup(r)
    \/ \E r \in 1..Len(runs) : run_task(r)
    \/ \E r \in 1..Len(runs) : process_finish(r)

Spec == InitPipe /\ [][Next]_vars

\* the next step of the background task of run r
RunStep(r) ==
    /\ r \in 1..Len(runs)
    /\ process_lookup(r) \/ run_task(r) \/ process_finish(r)

\* a background task that was enqueued is run by the event loop, and each of
\* its awaits (the lookup, a stage of the crew, a save) comes back in the end
RunsProgress == \A r \in 1..MaxRuns : WF_vars(RunStep(r))

SpecFair == InitPipe /\ [][Next]_vars /\ RunsProgress

-----------------------------------------------------------------------------
(* extract_financial_metrics: the five patterns, re.findall, extract_values *)

\* the text of a word, one character per element
Word(w) ==
    CASE w = "total" -> <<"t", "o", "t", "a", "l">>
      [] w = "net" -> <<"n", "e", "t">>
      [] w = "revenue" -> <<"r", "e", "v", "e", "n", "u", "e">>
      [] w = "revenues" -> <<"r", "e", "v", "e", "n", "u", "e", "s">>
      [] w = "sales" -> <<"s", "a", "l", "e", "s">>
      [] w = "income" -> <<"i", "n", "c", "o", "m", "e">>
      [] w = "earnings" -> <<"e", "a", "r", "n", "i", "n", "g", "s">>
      [] w = "assets" -> <<"a", "s", "s", "e", "t", "s">>
      [] w = "million" -> <<"m", "i", "l", "l", "i", "o", "n">>
      [] w = "billion" -> <<"b", "i", "l", "l", "i", "o", "n">>
      [] w = "thousand" -> <<"t", "h", "o", "u", "s", "a", "n", "d">>

\* [\d,.]
NumChars == Digits \cup {",", "."}

\* word\s+ at i: the index after it, or 0
WordSpaces(s, i, w) ==
    IF LitAt(s, i, Word(w)) /\ RunEnd(s, i + Len(Word(w)), Whitespace) >= i + Len(Word(w))
    THEN RunEnd(s, i + Len(Word(w)), Whitespace) + 1
    ELSE 0

\* (?:word\s+)? at i: the index after it, i itself when the word is absent
OptWordSpaces(s, i, w) == IF WordSpaces(s, i, w) # 0 THEN WordSpaces(s, i, w) ELSE i

\* the part of a pattern before [^\n\$]*, matched at i: the indexes after it
\* in the order the regex engine tries them (empty: no match at i)
HeadEnds(pat, s, i) ==
    CASE pat = "revenue1" ->      \* (?:total\s+)?(?:net\s+)?(?:revenue|sales)
            LET k == OptWordSpaces(s, OptWordSpaces(s, i, "total"), "net")
            IN  IF LitAt(s, k, Word("revenue")) THEN <<k + 7>>
                ELSE IF LitAt(s, k, Word("sales")) THEN <<k + 5>>
                ELSE <<>>
      [] pat = "revenue2" ->      \* revenues?
            IF LitAt(s, i, Word("revenues")) THEN <<i + 8, i + 7>>
            ELSE IF LitAt(s, i, Word("revenue")) THEN <<i + 7>>
            ELSE <<>>
      [] pat = "income" ->        \* net\s+income
            LET k == WordSpaces(s, i, "net")
            IN  IF k # 0 /\ LitAt(s, k, Word("income")) THEN <<k + 6>> ELSE <<>>
      [] pat = "earnings" ->      \* net\s+earnings
            LET k == WordSpaces(s, i, "net")
            IN  IF k # 0 /\ LitAt(s, k, Word("earnings")) THEN <<k + 8>> ELSE <<>>
      [] pat = "assets" ->        \* total\s+assets
            LET k == WordSpaces(s, i, "total")
            IN  IF k # 0 /\ LitAt(s, k, Word("assets")) THEN <<k + 6>> ELSE <<>>

\* \s*([\d,.]+) at q: the index of the first character of the group, or 0.
\* Only the whole run of whitespace can be followed by a character of the group.
NumStart(s, q) ==
    LET w == RunEnd(s, q, Whitespace) + 1
    IN  IF w <= Len(s) /\ s[w] \in NumChars THEN w ELSE 0

\* \$?\s*([\d,.]+) at p, the dollar sign tried first
DollarNumStart(s, p) ==
    IF p <= Len(s) /\ s[p] = "$" /\ NumStart(s, p + 1) # 0
    THEN NumStart(s, p + 1)
    ELSE NumStart(s, p)

\* the unit the optional last group matches at w, or "" (no unit)
UnitAt(s, w) ==
    IF LitAt(s, w, Word("million")) THEN "million"
    ELSE IF LitAt(s, w, Word("billion")) THEN "billion"
    ELSE IF LitAt(s, w, Word("thousand")) THEN "thousand"
    ELSE ""

\* [^\n\$]*\$?\s*([\d,.]+)\s*(million|billion|thousand)? from index h on.
\* The greedy [^\n\$]* runs to the end of the line or to the next "$" and
\* gives characters back one by one until the rest matches, so the match
\* uses the largest index p from which \$?\s*[\d,.]+ matches.
TailMatch(s, h) ==
    LET stops == {k \in h..Len(s) : s[k] \in {"\n", "$"}}
        pmax == IF stops = {} THEN Len(s) + 1 ELSE SetMin(stops)
        good == {p \in h..pmax : DollarNumStart(s, p) # 0}
    IN  IF good = {} THEN [ok |-> FALSE, value |-> <<>>, unit |-> <<>>, next |-> 0]
        ELSE LET n0 == DollarNumStart(s, SetMax(good))
                 n1 == RunEnd(s, n0, NumChars)
                 w == RunEnd(s, n1 + 1, Whitespace) + 1
                 u == UnitAt(s, w)
                 ulen == IF u = "" THEN 0 ELSE Len(Word(u))
             IN  [ok |-> TRUE, value |-> SubSeq(s, n0, n1),
                  unit |-> SubSeq(s, w, w + ulen - 1), next |-> w + ulen]

\* the match of the pattern that starts at i: the first head end, in the
\* engine's order, from which the tail matches
MatchAt(pat, s, i) ==
    LET hs == HeadEnds(pat, s, i)
        oks == {k \in 1..Len(hs) : TailMatch(s, hs[k]).ok}
    IN  IF oks = {} THEN [ok |-> FALSE, value |-> <<>>, unit |-> <<>>, next |-> 0]
        ELSE TailMatch(s, hs[SetMin(oks)])

\* body(v) with v evaluated once
Bind(v, body(_)) == CHOOSE y \in {body(x) : x \in {v}} : TRUE

\* re.findall(pattern, text, flags=re.IGNORECASE): the (group 1, group 2)
\* pairs of the non-overlapping matches, scanning from the left
RECURSIVE findall_from(_, _, _, _)
findall_from(pat, s, i, starts) ==
    IF \A k \in starts : k < i THEN <<>>
    ELSE Bind(MatchAt(pat, s, SetMin({k \in starts : k >= i})),
              LAMBDA m : <<[value |-> m.value, unit |-> m.unit]>>
                            \o findall_from(pat, s, m.next, starts))

findall(pat, s) ==
    Bind({k \in 1..Len(s) : MatchAt(pat, s, k).ok},
         LAMBDA starts : findall_from(pat, s, 1, starts))

\* variant: every match is kept
AllMatches(matches) == matches

\* matches[:3]
First3(matches) == SubSeq(matches, 1, IF Len(matches) < 3 THEN Len(matches) ELSE 3)

revenue_patterns == <<"revenue1", "revenue2">>

\* variant: the two profit patterns listed the other way round
profit_patterns_swapped == <<"earnings", "income">>

profit_patterns == <<"income", "earnings">>
asset_patterns == <<"assets">>

\* extract_values(patterns, key): the first pattern with a match sets
\* metrics[key] to its first three matches; without one metrics is unchanged
extract_values(metrics, patterns, key, text) ==
    Bind([k \in 1..Len(patterns) |-> findall(patterns[k], text)],
         LAMBDA found :
            LET hits == {k \in 1..Len(patterns) : found[k] # <<>>}
            IN  IF hits = {} THEN metrics
                ELSE [c \in (DOMAIN metrics) \cup {key} |->
                        IF c = key THEN First3(found[SetMin(hits)]) ELSE metrics[c]])

\* metrics: Dict[str, Any] = {}
EmptyMetrics == [c \in {} |-> <<>>]

\* extract_financial_metrics: `if not text` covers None and ""
extract_financial_metrics(text) ==
    IF text = None \/ text = <<>> THEN EmptyMetrics
    ELSE extract_values(
            extract_values(
               extract_values(EmptyMetrics, revenue_patterns, "revenue", text),
               profit_patterns, "net_income", text),
            asset_patterns, "total_assets", text)

MaxMetricTokens == 3

\* building blocks of the texts handed to extract_financial_metrics
MetricTokens ==
    { Word("sales") \o <<"$", "1", " ", "S", "a", "l", "e", "s", "$", "2", " ">>
         \o Word("sales") \o <<"$", "3", " ">> \o Word("sales") \o <<"$", "4", " ">>,
      Word("sales") \o <<" ", "7", ",", "5", " ">>,
      Word("net") \o <<" ">> \o Word("income") \o <<"$", "3">>,
      Word("net") \o <<" ">> \o Word("earnings") \o <<"$", "4">>,
      Word("total") \o <<" ">> \o Word("assets") \o <<" ", "$", "5", " ">> \o Word("million"),
      Word("revenues") \o <<"\n", "6">>,
      <<"\n">> }

RECURSIVE MetricTexts(_)
MetricTexts(n) ==
    IF n = 0 THEN {<<>>}
    ELSE LET shorter == MetricTexts(n - 1)
         IN  shorter \cup {s \o t : s \in shorter, t \in MetricTokens}

InitMetrics ==
    /\ call \in [fn : {"extract_financial_metrics"},
                 text : MetricTexts(MaxMetricTokens) \cup {None},
                 pc : {"called"},
                 metrics : {EmptyMetrics}]
    /\ CleanIdle
    /\ ExtractIdle
    /\ PipeIdle

\* the call returns the mapping; no statement of the function can raise on
\* a str or on None
extract_financial_metrics_call ==
    /\ call.fn = "extract_financial_metrics"
    /\ call.pc = "called"
    /\ call' = [call EXCEPT !.pc = "returned",
                            !.metrics = extract_financial_metrics(call.text)]
    /\ UNCHANGED <<cleanVars, extractVars, pipeVars>>

NextMetrics == extract_financial_metrics_call

SpecMetrics == InitMetrics /\ [][NextMetrics]_vars

-----------------------------------------------------------------------------
(* The payload of process_financial_document, lines 52-75, over the values   *)
(* a task output can hold.  A python value is a record tagged with its type; *)
(* scalars carry their text, containers their members.                       *)

PyNone == [t |-> "None", v |-> <<>>]
PyStr(text) == [t |-> "str", v |-> text]
PyInt(digits) == [t |-> "int", v |-> digits]
PyNaN == [t |-> "float", v |-> <<"n", "a", "n">>]
PyObject(text) == [t |-> "object", v |-> text]
PyList(items) == [t |-> "list", items |-> items]
PyTuple(items) == [t |-> "tuple", items |-> items]
PyDict(pairs) == [t |-> "dict", pairs |-> pairs]

\* dictionary entries with a str key and with an int key
StrKey(text, value) == [key |-> PyStr(text), value |-> value]
IntKey(digits, value) == [key |-> PyInt(digits), value |-> value]

\* str(o) of the values that are neither None nor of a JSON type
RECURSIVE ReprItems(_)
ReprItems(items) ==
    IF items = <<>> THEN <<>>
    ELSE items[1].v \o (IF Len(items) = 1 THEN <<>> ELSE <<",", " ">> \o ReprItems(Tail(items)))

str(o) ==
    IF o.t = "tuple"
    THEN <<"(">> \o ReprItems(o.items) \o (IF Len(o.items) = 1 THEN <<",">> ELSE <<>>) \o <<")">>
    ELSE o.v

\* _clean, lines 52-55
_clean(o) ==
    IF o.t = "None" THEN PyNone
    ELSE IF o.t \in {"str", "int", "float", "bool", "dict", "list"} THEN o
    ELSE PyStr(str(o))

\* whether json.dumps accepts the value (it raises TypeError on any other object)
RECURSIVE Encodable(_)
Encodable(o) ==
    CASE o.t \in {"None", "str", "int", "float", "bool"} -> TRUE
      [] o.t \in {"list", "tuple"} -> \A k \in 1..Len(o.items) : Encodable(o.items[k])
      [] o.t = "dict" ->
            \A k \in 1..Len(o.pairs) :
                /\ o.pairs[k].key.t \in {"None", "str", "int", "float", "bool"}
                /\ Encodable(o.pairs[k].value)
      [] OTHER -> FALSE

\* json.dumps: the JSON document, as a tree.  A key that is not a string is
\* written as the string of its text; a tuple is written as an array.
RECURSIVE json_dumps(_)
json_dumps(o) ==
    CASE o.t = "None" -> [j |-> "null", v |-> <<>>]
      [] o.t = "str" -> [j |-> "string", v |-> o.v]
      [] o.t \in {"int", "float"} -> [j |-> "number", v |-> o.v]
      [] o.t \in {"list", "tuple"} ->
            [j |-> "array", items |-> [k \in 1..Len(o.items) |-> json_dumps(o.items[k])]]
      [] o.t = "dict" ->
            [j |-> "object",
             pairs |-> [k \in 1..Len(o.pairs) |->
                          [key |-> o.pairs[k].key.v, value |-> json_dumps(o.pairs[k].value)]]]

\* json.loads: an array becomes a list, an object a dict with str keys
RECURSIVE json_loads(_)
json_loads(d) ==
    CASE d.j = "null" -> PyNone
      [] d.j = "string" -> PyStr(d.v)
      [] d.j = "number" -> IF d.v = PyNaN.v THEN PyNaN ELSE PyInt(d.v)
      [] d.j = "array" -> PyList([k \in 1..Len(d.items) |-> json_loads(d.items[k])])
      [] d.j = "object" ->
            PyDict([k \in 1..Len(d.pairs) |->
                      StrKey(d.pairs[k].key, json_loads(d.pairs[k].value))])

\* the values the model lets a task output hold
TaskOutputs ==
    { PyNone,
      PyStr(<<"o", "k">>),
      PyInt(<<"7">>),
      PyNaN,
      PyObject(<<"r", "a", "w">>),
      PyTuple(<<PyInt(<<"1">>)>>),
      PyDict(<<StrKey(<<"k">>, PyStr(<<"v">>))>>),
      PyDict(<<IntKey(<<"1">>, PyStr(<<"v">>))>>),
      PyList(<<PyInt(<<"1">>), PyStr(<<"a">>)>>),
      PyList(<<PyTuple(<<PyInt(<<"1">>), PyInt(<<"2">>)>>)>>),
      PyList(<<PyObject(<<"r", "a", "w">>)>>) }

\* the payload dictionary of lines 57-65
PayloadDict(outputs, query, file_path) ==
    PyDict(<< StrKey(<<"verification">>, _clean(outputs.verification)),
              StrKey(<<"analysis">>, _clean(outputs.analysis)),
              StrKey(<<"risk">>, _clean(outputs.risk)),
              StrKey(<<"recommendation">>, _clean(outputs.recommendation)),
              StrKey(<<"query_used">>, PyStr(query)),
              StrKey(<<"source">>, PyStr(file_path)),
              StrKey(<<"generated_at">>, PyStr(<<"utcnow", "Z">>)) >>)

InitAssemble ==
    /\ call \in [fn : {"assemble"},
                 outputs : [{"verification", "analysis", "risk", "recommendation"} -> TaskOutputs],
                 pc : {"kickoff returned"},
                 payload : {PyNone}, status : {PROCESSING}, analysis : {PyNone},
                 error : {Null}]
    /\ CleanIdle
    /\ ExtractIdle
    /\ PipeIdle

\* lines 52-65: clean the four outputs and build the payload
assemble_payload ==
    /\ call.fn = "assemble"
    /\ call.pc = "kickoff returned"
    /\ call' = [call EXCEPT !.pc = "payload built",
                            !.payload = PayloadDict(call.outputs, <<"q">>, <<"uploads/f">>)]
    /\ UNCHANGED <<cleanVars, extractVars, pipeVars>>

\* line 68: json.loads(json.dumps(payload)); the decoded value is dropped.
\* When json.dumps raises, the except branch records FAILED and the message.
json_check ==
    /\ call.fn = "assemble"
    /\ call.pc = "payload built"
    /\ call' = IF Encodable(call.payload)
               THEN [call EXCEPT !.pc = "json passed"]
               ELSE [call EXCEPT !.pc = "raised", !.status = FAILED,
                                 !.error = "TypeError: not JSON serializable"]
    /\ UNCHANGED <<cleanVars, extractVars, pipeVars>>

\* lines 70-75: store the payload and COMPLETED
store_completed ==
    /\ call.fn = "assemble"
    /\ call.pc = "json passed"
    /\ call' = [call EXCEPT !.pc = "returned", !.status = COMPLETED,
                            !.analysis = call.payload, !.error = Null]
    /\ UNCHANGED <<cleanVars, extractVars, pipeVars>>

NextAssemble == assemble_payload \/ json_check \/ store_completed

SpecAssemble == InitAssemble /\ [][NextAssemble]_vars

-----------------------------------------------------------------------------
(* The two web-search tools: search_tool (tools/financial_tools.py) and      *)
(* SerperSearchTool._run (tools/search_tool.py)                              *)

\* what the HTTP exchange gives: a timeout, another transport error, an error
\* status (raise_for_status), a body that is no JSON, or the decoded JSON
HttpErrors == {"timeout", "transport error", "HTTP error status", "invalid JSON body"}

Result(title, link, snippet) ==
    PyDict(<<StrKey(<<"title">>, title), StrKey(<<"link">>, link), StrKey(<<"snippet">>, snippet)>>)

Organic(value) == PyDict(<<StrKey(<<"organic">>, value)>>)

\* the JSON bodies the model lets the service answer with
JsonBodies ==
    { PyDict(<<>>),
      Organic(PyList(<<>>)),
      Organic(PyList(<<Result(PyStr(<<"T">>), PyStr(<<"L">>), PyStr(<<"S">>))>>)),
      Organic(PyList(<<PyDict(<<>>)>>)),
      PyList(<<>>),
      Organic(PyNone),
      Organic(PyList(<<Result(PyNone, PyStr(<<"L">>), PyStr(<<"S">>))>>)),
      Organic(PyList(<<PyStr(<<"T">>)>>)),
      Organic(PyInt(<<"3">>)),
      PyDict(<<StrKey(<<"message">>, PyStr(<<"Unauthorized">>))>>) }

HttpOutcomes ==
    [error : HttpErrors, data : {PyNone}] \cup [error : {"none"}, data : JsonBodies]

\* obj.get(key, default); AttributeError when obj is no dict
HasGet(obj) == obj.t = "dict"

Get(obj, key, default) ==
    LET hits == {k \in 1..Len(obj.pairs) : obj.pairs[k].key = PyStr(key)}
    IN  IF hits = {} THEN default ELSE obj.pairs[SetMax(hits)].value

\* value[:n]; TypeError when the value cannot be sliced
Sliceable(value) == value.t \in {"list", "tuple", "str"}

Slice(value, n) ==
    IF value.t = "str" THEN PyStr(SubSeq(value.v, 1, IF Len(value.v) < n THEN Len(value.v) ELSE n))
    ELSE [value EXCEPT !.items = SubSeq(value.items, 1,
                                        IF Len(value.items) < n THEN Len(value.items) ELSE n)]

\* the elements a for loop takes from a list or from a str
Elements(value) ==
    IF value.t = "str" THEN [k \in 1..Len(value.v) |-> PyStr(<<value.v[k]>>)]
    ELSE value.items

\* one pass of the loop of lines 44-48 raises
ItemRaises(item) ==
    \/ ~HasGet(item)
    \/ ~Sliceable(Get(item, <<"title">>, PyStr(<<"Untitled">>)))
    \/ ~Sliceable(Get(item, <<"snippet">>, PyStr(<<>>)))

\* f"{value}" of a str or of a list prints its text; the model prints the
\* members of a list one after the other
Shown(value) == IF value.t \in {"list", "tuple"} THEN <<"[", "...", "]">> ELSE value.v

\* "<bullet> {title}\n  {link}\n  {snippet}", the bullet written "*"
ItemText(item) ==
    <<"*", " ">> \o Shown(Slice(Get(item, <<"title">>, PyStr(<<"Untitled">>)), 100))
        \o <<"\n", " ", " ">> \o Shown(Get(item, <<"link">>, PyStr(<<>>)))
        \o <<"\n", " ", " ">> \o Shown(Slice(Get(item, <<"snippet">>, PyStr(<<>>)), 200))

Returned(value) == [raised |-> FALSE, value |-> value, error |-> "none"]
Raised(error) == [raised |-> TRUE, value |-> PyNone, error |-> error]

\* lines 39-49 of search_tool, which stand after the try block
FormatResults(data) ==
    IF ~HasGet(data) THEN Raised("AttributeError")
    ELSE IF ~Sliceable(Get(data, <<"organic">>, PyList(<<>>))) THEN Raised("TypeError")
    ELSE LET items == Elements(Slice(Get(data, <<"organic">>, PyList(<<>>)), 5))
         IN  IF items = <<>>
             THEN Returned(PyStr(<<"No search results found.">>))
             ELSE IF \E k \in 1..Len(items) : ItemRaises(items[k])
             THEN Raised(IF \E k \in 1..Len(items) : ~HasGet(items[k])
                         THEN "AttributeError" ELSE "TypeError")
             ELSE Returned(PyStr(Join([k \in 1..Len(items) |-> ItemText(items[k])],
                                      <<"\n", "\n">>)))

\* search_tool(query) for what the HTTP exchange gives
search_tool(api_key, http) ==
    IF api_key = "" THEN Returned(PyStr(<<"Search unavailable: SERPER_API_KEY not set.">>))
    ELSE IF http.error = "timeout" THEN Returned(PyStr(<<"Search timeout occurred.">>))
    ELSE IF http.error # "none" THEN Returned(PyStr(<<"Search error: ", http.error>>))
    ELSE FormatResults(http.data)

\* SerperSearchTool._run: the decoded JSON as it came, or None after the
\* except branch, which logs and falls off the end of the function
_run(api_key, http) ==
    IF http.error # "none" THEN Returned(PyNone) ELSE Returned(http.data)

SearchTools == {"search_tool", "SerperSearchTool._run"}

InitSearch ==
    /\ call \in [fn : SearchTools, api_key : {"", "key"}, http : HttpOutcomes,
                 pc : {"called"}, requests : {0}, result : {Returned(PyNone)}]
    /\ CleanIdle
    /\ ExtractIdle
    /\ PipeIdle

\* a call of search_tool: no request without a key (lines 18-21), else one POST
search_tool_call ==
    /\ call.fn = "search_tool"
    /\ call.pc = "called"
    /\ LET r == search_tool(call.api_key, call.http)
       IN  call' = [call EXCEPT !.pc = IF r.raised THEN "raised" ELSE "returned",
                                !.requests = IF call.api_key = "" THEN 0 ELSE 1,
                                !.result = r]
    /\ UNCHANGED <<cleanVars, extractVars, pipeVars>>

\* a call of SerperSearchTool._run: the POST of line 63 is made whatever the
\* key is
SerperSearchTool_run ==
    /\ call.fn = "SerperSearchTool._run"
    /\ call.pc = "called"
    /\ LET r == _run(call.api_key, call.http)
       IN  call' = [call EXCEPT !.pc = IF r.raised THEN "raised" ELSE "returned",
                                !.requests = 1,
                                !.result = r]
    /\ UNCHANGED <<cleanVars, extractVars, pipeVars>>

NextSearch == search_tool_call \/ SerperSearchTool_run

SpecSearch == InitSearch /\ [][NextSearch]_vars

-----------------------------------------------------------------------------
(* The in-memory rate limit: rate_limit (api/deps.py) and rate_limit_check   *)
(* (main.py), each over the table of its own application                     *)

\* settings.RATE_LIMIT_CALLS and settings.RATE_LIMIT_PERIOD are environment
\* settings (defaults 100 and 3600); the model takes small values
RATE_LIMIT_CALLS == 2
RATE_LIMIT_PERIOD == 2

\* the readings of time.time() and the number of requests the model follows
MaxTime == 4
MaxRequests == 5

\* [t for t in reqs if now - t < window]
Pruned(reqs, now) == SelectSeq(reqs, LAMBDA t : now - t < RATE_LIMIT_PERIOD)

\* len(...) >= cap raises 429
Admitted(reqs) == ~(Len(reqs) >= RATE_LIMIT_CALLS)

\* variant: the request is recorded before the cap is looked at
Recorded_always(reqs, now, admitted) == Append(reqs, now)

\* the append of the last line is reached only when no 429 was raised
Recorded(reqs, now, admitted) == IF admitted THEN Append(reqs, now) ELSE reqs

\* the table after the request of uid at `now`: pruned, then recorded
TableAfter(counts, uid, now) ==
    [counts EXCEPT ![uid] = Recorded(Pruned(counts[uid], now), now,
                                     Admitted(Pruned(counts[uid], now)))]

\* what the request of uid at `now` is answered with
StatusAfter(counts, uid, now) ==
    IF Admitted(Pruned(counts[uid], now)) THEN 200 ELSE 429

Limiters == {"rate_limit", "rate_limit_check"}

\* _request_counts = defaultdict(list): every user starts with no entry.
\* `log` is the history of the requests made, read by the properties only.
InitRate ==
    /\ call \in [fn : Limiters, now : {0}, counts : {[u \in Users |-> <<>>]},
                 log : {<<>>}]
    /\ CleanIdle
    /\ ExtractIdle
    /\ PipeIdle

Request(uid) ==
    /\ Len(call.log) < MaxRequests
    /\ call' = [call EXCEPT
                  !.counts = TableAfter(call.counts, uid, call.now),
                  !.log = Append(call.log,
                                 [user |-> uid, time |-> call.now,
                                  status |-> StatusAfter(call.counts, uid, call.now)])]
    /\ UNCHANGED <<cleanVars, extractVars, pipeVars>>

\* a request that goes through Depends(rate_limit)
rate_limit(uid) == call.fn = "rate_limit" /\ Request(uid)

\* a request to main.py's analyze endpoint
rate_limit_check(uid) == call.fn = "rate_limit_check" /\ Request(uid)

\* time passes between two requests
Tick ==
    /\ call.fn \in Limiters
    /\ call.now < MaxTime
    /\ call' = [call EXCEPT !.now = call.now + 1]
    /\ UNCHANGED <<cleanVars, extractVars, pipeVars>>

NextRate ==
    \/ \E u \in Users : rate_limit(u)
    \/ \E u \in Users : rate_limit_check(u)
    \/ Tick

SpecRate == InitRate /\ [][NextRate]_vars

-----------------------------------------------------------------------------
(* Claims about the pipeline (Spec) *)

StageOrder == <<"verification", "analysis", "risk", "recommendation">>

RunIds == 1..Len(runs)
DocIds == 1..Len(documents)

InFlight(r) == runs[r].pc \in {"queued", "kickoff", "assemble"}

\* the tasks of run r that were started and returned an output
Completed(r) == DOMAIN runs[r].outputs

\* C3: in every run the stages execute in the order verification, financial
\* analysis, risk assessment, investment recommendation; a stage starts only
\* when all stages before it have completed, none is skipped or repeated, and
\* a run gets to assemble its result only after all four.
C3_StagesInOrder ==
    \A r \in RunIds :
        LET t == runs[r].trace
        IN  /\ Len(t) <= 4
            /\ \A k \in 1..Len(t) : t[k] = StageOrder[k]
            /\ \A k \in 1..(Len(t) - 1) : t[k] \in Completed(r)
            /\ Completed(r) \subseteq {t[k] : k \in 1..Len(t)}
            /\ runs[r].pc \in {"assemble", "returned"} =>
                  t = StageOrder /\ Completed(r) = {t[k] : k \in 1..4}

\* C3 witness: a run has returned after all four stages while another run is
\* between two stages
C3_Witness ==
    \E r1, r2 \in RunIds :
        /\ runs[r1].pc = "returned"
        /\ runs[r1].trace = StageOrder
        /\ runs[r2].pc = "kickoff"
        /\ Len(runs[r2].trace) = 2

\* C4: when a stage of a run raises, that stage is the last one the run
\* executes (nothing after it, no second attempt), the run saves its document
\* as FAILED and never as COMPLETED, and the error leaving the run is the one
\* the stage raised.
C4_FailFast ==
    \A r \in RunIds :
        \A k \in 1..Len(runs[r].trace) :
            runs[r].trace[k] \notin Completed(r) =>
                /\ k = Len(runs[r].trace)
                /\ \A j \in 1..(k - 1) : runs[r].trace[j] # runs[r].trace[k]
                /\ runs[r].pc = "raised"
                /\ runs[r].exc = [type |-> "stage", msg |-> StageFailure[StageOrder[k]]]
                /\ Len(runs[r].saves) = 1
                /\ runs[r].saves[1].status = FAILED
                /\ runs[r].saves[1].doc_id = runs[r].document_id

\* C4 witness: the second stage of a run raised after the first completed
C4_Witness ==
    \E r \in RunIds :
        /\ runs[r].pc = "raised"
        /\ runs[r].trace = <<"verification", "analysis">>
        /\ Completed(r) = {"verification"}
        /\ documents[runs[r].document_id].status = FAILED

\* C5: whenever a run ends with an error, whatever step raised it, the run
\* has saved its document as FAILED with the error's message.
C5_FailureRecorded ==
    \A r \in RunIds :
        runs[r].pc = "raised" =>
            /\ runs[r].saves # <<>>
            /\ runs[r].saves[Len(runs[r].saves)] =
                  [doc_id |-> runs[r].document_id, status |-> FAILED,
                   error |-> runs[r].exc.msg]

\* the moves of a status that C6 allows
Forward(old, new) ==
    \/ new = old
    \/ old = UPLOADED /\ new = PROCESSING
    \/ old = PROCESSING /\ new \in {COMPLETED, FAILED}

\* C6: a document's status only moves UPLOADED -> PROCESSING ->
\* {COMPLETED, FAILED} and never changes once COMPLETED or FAILED.
C6_StatusForwardOnly ==
    [][\A d \in DocIds : Forward(documents[d].status, documents'[d].status)]_vars

\* run r made a step
Stepped(r) == runs'[r] # runs[r]

\* C6 as amended: a document's status never returns to UPLOADED; it becomes
\* PROCESSING only when an analyze request enqueues a run for the document
\* (whatever the status was, COMPLETED and FAILED included), and it becomes
\* COMPLETED or FAILED only by the final save of a run of that document, and
\* never directly from UPLOADED.
C6_StatusMoves ==
    [][\A d \in DocIds :
          documents'[d].status # documents[d].status =>
             \/ /\ documents'[d].status = PROCESSING
                /\ Len(runs') = Len(runs) + 1
                /\ runs'[Len(runs')].document_id = d
                /\ runs'[Len(runs')].pc = "queued"
             \/ /\ documents'[d].status \in {COMPLETED, FAILED}
                /\ documents[d].status # UPLOADED
                /\ \E r \in RunIds :
                      /\ runs[r].document_id = d
                      /\ Stepped(r)
                      /\ runs'[r].pc \in {"returned", "raised"}
                      /\ runs'[r].saves[Len(runs'[r].saves)].status = documents'[d].status
      ]_vars

\* C6 witness: a document that a run has completed is PROCESSING again
C6_Witness ==
    \E d \in DocIds, r1, r2 \in RunIds :
        /\ documents[d].status = PROCESSING
        /\ documents[d].analysis # NoAnalysis
        /\ runs[r1].document_id = d /\ runs[r1].pc = "returned"
        /\ runs[r2].document_id = d /\ runs[r2].pc = "queued"

\* C7: a document never has two runs in flight at the same time.
C7_OneRunInFlight ==
    \A d \in DocIds :
        Cardinality({r \in RunIds : runs[r].document_id = d /\ InFlight(r)}) <= 1

\* the payload run r builds from its own task outputs, query and file path
OwnPayload(r) ==
    [verification |-> [run |-> r, task |-> "verification"],
     analysis |-> [run |-> r, task |-> "analysis"],
     risk |-> [run |-> r, task |-> "risk"],
     recommendation |-> [run |-> r, task |-> "recommendation"],
     query_used |-> <<"query", r>>,
     source |-> documents[runs[r].document_id].file_path]

C12_PartialOutputsKept ==
    [][\A r \in RunIds :
          ( /\ Stepped(r)
            /\ runs'[r].pc = "raised"
            /\ runs'[r].exc.type = "stage"
            /\ Len(runs'[r].trace) > 1 ) =>
             LET saved == documents'[runs[r].document_id].analysis
             IN  /\ saved # NoAnalysis
                 /\ \A j \in 1..Len(runs[r].trace) :
                       saved[StageOrder[j]] = runs[r].outputs[StageOrder[j]]
      ]_vars

\* C13: an analysis result once stored is never replaced: analysing a
\* document again leaves the earlier result as it was.
C13_AnalysisNeverOverwritten ==
    [][\A d \in DocIds :
          documents[d].analysis # NoAnalysis =>
             documents'[d].analysis = documents[d].analysis
      ]_vars

\* the stored status of document d, "absent" before its upload
StatusOf(d) == IF d \in 1..Len(documents) THEN documents[d].status ELSE "absent"

\* C20: when every stage comes back and the saves succeed, a document that is
\* PROCESSING is COMPLETED or FAILED at some later time, whatever analyze
\* requests are interleaved.
C20_ProcessingEnds ==
    \A d \in 1..MaxDocs :
        (StatusOf(d) = PROCESSING) ~> (StatusOf(d) \in {COMPLETED, FAILED})

\* C21: in every reachable state a COMPLETED document carries an analysis
\* payload and a null error, and a FAILED document carries a non-null error.
C21_StatusFieldsAgree ==
    \A d \in DocIds :
        /\ documents[d].status = COMPLETED =>
              documents[d].analysis # NoAnalysis /\ documents[d].error = Null
        /\ documents[d].status = FAILED => documents[d].error # Null

\* C21 witness: a document is COMPLETED by a second run after a first run on
\* it had saved it as FAILED
C21_Witness ==
    \E r1, r2 \in RunIds :
        /\ r1 # r2
        /\ runs[r1].document_id = runs[r2].document_id
        /\ runs[r1].pc = "raised" /\ runs[r1].saves # <<>>
        /\ runs[r2].pc = "returned"
        /\ runs[r2].doc = NoDoc
        /\ documents[runs[r2].document_id].status = COMPLETED
        /\ documents[runs[r2].document_id].analysis = Payload(r2)

\* C22: the analysis and the error that get_document_detail returns for a
\* PROCESSING or FAILED document belong to the run that set that status: a
\* PROCESSING document shows neither, and a FAILED document shows the error
\* of a run that failed on it and no payload but that run's own.
C22_NoLeftovers ==
    \A d \in DocIds :
        LET detail == get_document_detail(d)
        IN  /\ detail.status = PROCESSING =>
                  detail.analysis = NoAnalysis /\ detail.error = Null
            /\ detail.status = FAILED =>
                  \E r \in RunIds :
                      /\ runs[r].document_id = d
                      /\ runs[r].pc = "raised"
                      /\ runs[r].saves # <<>>
                      /\ detail.error = runs[r].exc.msg
                      /\ \/ detail.analysis = NoAnalysis
                         \/ runs[r].exc = DbError("save") /\ detail.analysis = Payload(r)

\* C24: two distinct document records always refer to distinct stored files,
\* so that no upload writes over the file an existing document points to.
C24_DistinctFiles ==
    \A d1, d2 \in DocIds : d1 # d2 => documents[d1].file_path # documents[d2].file_path

-----------------------------------------------------------------------------
(* Claims about the payload (SpecAssemble) *)

\* python's ==: equal structure, and a NaN equals nothing
RECURSIVE HasNaN(_)
HasNaN(o) ==
    CASE o.t = "float" -> o = PyNaN
      [] o.t \in {"list", "tuple"} -> \E k \in 1..Len(o.items) : HasNaN(o.items[k])
      [] o.t = "dict" -> \E k \in 1..Len(o.pairs) : HasNaN(o.pairs[k].value)
      [] OTHER -> FALSE

PyEq(a, b) == a = b /\ ~HasNaN(a)

\* C11: the payload stored on a COMPLETED document equals what decoding its
\* JSON encoding gives; a payload that does not is recorded as a failure.
C11_PayloadRoundTrips ==
    (call.fn = "assemble" /\ call.status = COMPLETED) =>
        PyEq(call.analysis, json_loads(json_dumps(call.analysis)))

-----------------------------------------------------------------------------
(* Claims about extract_financial_metrics (SpecMetrics) *)

\* the metric categories with their patterns in the order of the source
Categories ==
    { [key |-> "revenue", patterns |-> <<"revenue1", "revenue2">>],
      [key |-> "net_income", patterns |-> <<"income", "earnings">>],
      [key |-> "total_assets", patterns |-> <<"assets">>] }

MetricsReturned == call.fn = "extract_financial_metrics" /\ call.pc = "returned"

\* the text was neither None nor empty
TextGiven == call.text # None /\ call.text # <<>>

\* C15: for each category the value stored is made of the matches of the
\* first pattern, in listed order, that matches at all: its first three
\* matches in scan order, or all of them when there are fewer than four.
C15_FirstPatternFirstThree ==
    (MetricsReturned /\ TextGiven) =>
        \A c \in Categories :
            \A k \in 1..Len(c.patterns) :
                LET found == findall(c.patterns[k], call.text)
                IN  ( /\ found # <<>>
                      /\ \A j \in 1..(k - 1) : findall(c.patterns[j], call.text) = <<>> ) =>
                        /\ c.key \in DOMAIN call.metrics
                        /\ Len(call.metrics[c.key]) = (IF Len(found) < 4 THEN Len(found) ELSE 3)
                        /\ \A m \in 1..Len(call.metrics[c.key]) :
                              call.metrics[c.key][m] = found[m]

\* C15 witness: a text in which both profit patterns match and the first
\* revenue pattern matches more than three times
C15_Witness ==
    /\ MetricsReturned /\ TextGiven
    /\ findall("income", call.text) # <<>>
    /\ findall("earnings", call.text) # <<>>
    /\ Len(findall("revenue1", call.text)) > 3
    /\ Len(call.metrics["revenue"]) = 3

\* C16: a key is in the returned mapping exactly when one of its patterns
\* matched, every value is a list of one to three matches, None and the
\* empty text give the empty mapping, and the call returns (it never raises).
C16_KeysIffMatched ==
    call.fn = "extract_financial_metrics" =>
        /\ call.pc \in {"called", "returned"}
        /\ MetricsReturned =>
              /\ DOMAIN call.metrics \subseteq {c.key : c \in Categories}
              /\ \A key \in DOMAIN call.metrics : Len(call.metrics[key]) \in 1..3
              /\ ~TextGiven => call.metrics = EmptyMetrics
              /\ TextGiven =>
                    \A c \in Categories :
                        c.key \in DOMAIN call.metrics <=>
                            \E k \in 1..Len(c.patterns) :
                                findall(c.patterns[k], call.text) # <<>>

\* C16 witness: a text with matches for one category only, and fewer than
\* three of them
C16_Witness ==
    /\ MetricsReturned /\ TextGiven
    /\ DOMAIN call.metrics = {"total_assets"}
    /\ Len(call.metrics["total_assets"]) = 2

-----------------------------------------------------------------------------
(* Claims about the page and table tags (SpecTags) *)

\* s[i..] starts with the characters of lit exactly
ExactAt(s, i, lit) ==
    /\ i + Len(lit) - 1 <= Len(s)
    /\ \A k \in 1..Len(lit) : s[i + k - 1] = lit[k]

TagOpen(kind) ==
    IF kind = "Page" THEN <<"[", "P", "a", "g", "e", " ">>
    ELSE <<"[", "T", "a", "b", "l", "e", " ">>

\* index of the "]" of a tag "[Page n]" or "[Table n]" that starts at i, or 0
TagClose(s, i, kind) ==
    LET first == i + Len(TagOpen(kind))
        last == RunEnd(s, first, Digits)
    IN  IF ExactAt(s, i, TagOpen(kind)) /\ last >= first /\ last + 1 <= Len(s)
           /\ s[last + 1] = "]"
        THEN last + 1 ELSE 0

RECURSIVE DigitsValue(_)
DigitsValue(ds) ==
    IF ds = <<>> THEN 0
    ELSE 10 * DigitsValue(SubSeq(ds, 1, Len(ds) - 1))
            + (CHOOSE n \in 0..9 : IntStr(n) = <<ds[Len(ds)]>>)

\* the tags of a text in the order they stand in it, each with the index
\* after its "]"
RECURSIVE TagsFrom(_, _)
TagsFrom(s, i) ==
    LET at == {k \in i..Len(s) : TagClose(s, k, "Page") # 0 \/ TagClose(s, k, "Table") # 0}
    IN  IF at = {} THEN <<>>
        ELSE LET k == SetMin(at)
                 kind == IF TagClose(s, k, "Page") # 0 THEN "Page" ELSE "Table"
                 close == TagClose(s, k, kind)
             IN  <<[kind |-> kind,
                    n |-> DigitsValue(SubSeq(s, k + Len(TagOpen(kind)), close - 1)),
                    after |-> close + 1]>> \o TagsFrom(s, close + 1)

\* the number of table blocks a page must get
TablesOf(name, page) ==
    IF name = "pdfplumber" /\ ~page.tablesRaise THEN Len(page.tables) ELSE 0

\* the tags the pages must produce: [Page i], then [Table 1] .. [Table t]
RECURSIVE ExpectedTags(_, _, _)
ExpectedTags(name, pages, i) ==
    IF i > Len(pages) THEN <<>>
    ELSE <<[kind |-> "Page", n |-> i]>>
            \o [k \in 1..TablesOf(name, pages[i]) |-> [kind |-> "Table", n |-> k]]
            \o ExpectedTags(name, pages, i + 1)

\* C18: the text an extractor returns for n pages carries the tags [Page 1]
\* to [Page n] in this order, one per page, empty pages included, each
\* followed by the page's text; the table-aware extractor puts after each
\* page's text one [Table k] tag per table of the page, k starting at 1 on
\* every page; a page whose table extraction raises keeps its text and the
\* pages after it keep theirs.
C18_PageAndTableTags ==
    (call.fn = "extractor" /\ call.pc = "returned") =>
        LET tags == TagsFrom(call.text, 1)
            want == ExpectedTags(call.name, call.pages, 1)
            pageTags == SelectSeq(tags, LAMBDA g : g.kind = "Page")
        IN  /\ Len(tags) = Len(want)
            /\ \A k \in 1..Len(tags) : tags[k].kind = want[k].kind /\ tags[k].n = want[k].n
            /\ \A i \in 1..Len(pageTags) :
                  LET body == IF call.pages[i].text = None THEN <<>> ELSE call.pages[i].text
                  IN  ExactAt(call.text, pageTags[i].after, <<"\n">> \o body \o <<"\n">>)

\* C18 witness: the table-aware extractor has returned for two pages, the
\* first without text and with a failing table extraction, the second with
\* text and two tables
C18_Witness ==
    /\ call.fn = "extractor" /\ call.pc = "returned" /\ call.name = "pdfplumber"
    /\ Len(call.pages) = 2
    /\ call.pages[1].text = None /\ call.pages[1].tablesRaise
    /\ call.pages[2].text = <<"x">> /\ Len(call.pages[2].tables) = 2

-----------------------------------------------------------------------------
(* Claims about the web search (SpecSearch) *)

\* C19: a web-search call never raises and always returns a string; without
\* an API key it sends no request.
C19_SearchNeverRaises ==
    call.fn \in SearchTools =>
        /\ call.pc # "raised"
        /\ call.pc = "returned" =>
              /\ call.result.value.t = "str"
              /\ call.api_key = "" => call.requests = 0

-----------------------------------------------------------------------------
(* Claims about the rate limit (SpecRate) *)

\* the requests of user u that were admitted at a time in from..(to - 1)
AdmittedIn(u, from, to) ==
    {k \in 1..Len(call.log) :
        /\ call.log[k].user = u
        /\ call.log[k].status = 200
        /\ call.log[k].time >= from
        /\ call.log[k].time < to}

\* C23: for each user at most RATE_LIMIT_CALLS requests are admitted within
\* any window of RATE_LIMIT_PERIOD seconds; what the table holds for a user is
\* that user's admitted requests of the current window and nothing else, so
\* that neither a rejected request nor a request of another user changes when
\* the user is admitted.
C23_RateLimit ==
    call.fn \in Limiters =>
        \A u \in Users :
            /\ \A from \in 0..MaxTime :
                  Cardinality(AdmittedIn(u, from, from + RATE_LIMIT_PERIOD)) <= RATE_LIMIT_CALLS
            /\ Len(Pruned(call.counts[u], call.now))
                  = Cardinality(AdmittedIn(u, call.now - RATE_LIMIT_PERIOD + 1, call.now + 1))
            /\ \A k \in 1..Len(call.counts[u]) :
                  AdmittedIn(u, call.counts[u][k], call.counts[u][k] + 1) # {}

\* C23 witness: a user is rejected at the cap and admitted again once the
\* window has passed, while another user was admitted in between
C23_Witness ==
    /\ call.fn \in Limiters
    /\ \E i, j, k \in 1..Len(call.log) :
          /\ i < j /\ j < k
          /\ call.log[i].status = 429
          /\ call.log[j].user # call.log[i].user /\ call.log[j].status = 200
          /\ call.log[j].time = call.log[i].time
          /\ call.log[k].user = call.log[i].user /\ call.log[k].status = 200
          /\ call.log[k].time > call.log[i].time

-----------------------------------------------------------------------------
(* Claims about read_document (SpecExtract) *)

\* the raw text of a recorded extractor call
RawText(a) == ExtractorText(a.extractor, a.yield.parts)

\* the call did not throw and its stripped output is longer than 50 characters
Clears(a) == ~a.yield.threw /\ Len(Strip(RawText(a))) > 50

LastAttempt == attempts[Len(attempts)]

\* C1: the PDF cascade calls pdfplumber, PyMuPDF, PyPDF2 in that order, one
\* per step; a call that throws or strips to at most 50 characters is skipped
\* without failing the extraction; the first call that clears the threshold
\* ends the cascade, and its normalised output is the result.
C1_CascadeOrder ==
    /\ Len(attempts) <= 3
    /\ \A k \in 1..Len(attempts) :
          attempts[k].extractor = <<"pdfplumber", "pymupdf", "pypdf2">>[k]
    /\ \A k \in 1..(Len(attempts) - 1) : ~Clears(attempts[k])
    /\ attempts # <<>> /\ Clears(LastAttempt) =>
          /\ xpc = "returned"
          /\ xresult = _clean_financial_text(RawText(LastAttempt))
          /\ xerror = NoError
    /\ attempts # <<>> /\ ~Clears(LastAttempt) =>
          /\ xresult = Unset
          /\ Len(attempts) < 3 => xpc = "pdf" /\ xerror = NoError

\* C1 witness: the first extractor threw, the second was below the threshold,
\* and the third one's output was returned
C1_Witness ==
    /\ xpc = "returned"
    /\ Len(attempts) = 3
    /\ attempts[1].yield.threw
    /\ ~attempts[2].yield.threw
    /\ Clears(attempts[3])

AllFailedError == "Exception: All PDF extractors failed"

\* C2: when each of the three extractors throws or strips to at most 50
\* characters, no text is returned and the only outcome is the
\* all-extractors-failed error; that error is raised only after three calls.
C2_AllFail ==
    /\ (Len(attempts) = 3 /\ \A k \in 1..3 : ~Clears(attempts[k])) =>
          /\ xresult = Unset
          /\ xpc \in {"pdf", "raised"}
          /\ xpc = "pdf" => ENABLED _extract_pdf_exhausted
          /\ xpc = "raised" => xerror = AllFailedError
    /\ xerror = AllFailedError =>
          /\ Len(attempts) = 3
          /\ \A k \in 1..3 : ~Clears(attempts[k])
          /\ xresult = Unset

\* C2 witness: the failure was raised after one extractor threw and another
\* returned text that strips to exactly 50 characters
C2_Witness ==
    /\ xpc = "raised"
    /\ xerror = AllFailedError
    /\ \E k \in 1..3 : attempts[k].yield.threw
    /\ \E k \in 1..3 :
          ~attempts[k].yield.threw /\ Len(Strip(RawText(attempts[k]))) = 50

\* the errors of the three input checks
InputErrors ==
    {"FileNotFoundError", "ValueError: File too large", "ValueError: Unsupported file type"}

\* C14: read_document checks existence, then size, then extension: a missing
\* path raises not-found; an existing file larger than 100 MB raises the size
\* error and one of exactly 100 MB does not; an existing file within the
\* limit whose lower-cased suffix is none of .pdf, .docx, .txt raises the
\* unsupported-type error; in these three cases no extractor has run and the
\* three errors differ from each other and from the extraction failure; any
\* other file raises none of the three.
C14_InputChecks ==
    xpc \notin {"idle", "call"} =>
        LET missing == ~file.exists
            oversize == file.size > 104857600
            supported == LowerExt(file.ext) \in {".pdf", ".docx", ".txt"}
            rejected(e) == /\ xpc = "raised" /\ xerror = e
                           /\ attempts = <<>> /\ xresult = Unset
        IN  /\ missing => rejected("FileNotFoundError")
            /\ (~missing /\ oversize) => rejected("ValueError: File too large")
            /\ (~missing /\ ~oversize /\ ~supported) =>
                  rejected("ValueError: Unsupported file type")
            /\ (~missing /\ ~oversize /\ supported) => xerror \notin InputErrors
            /\ Cardinality(InputErrors \cup {"Exception: All PDF extractors failed"}) = 4

\* C14 witness: a file of exactly the maximum size with an upper-case suffix
\* has been read
C14_Witness ==
    /\ file.exists /\ file.size = 104857600 /\ file.ext = ".TXT"
    /\ xpc = "returned"

\* what the pages of an attempt hold, without the tags: the page texts and
\* the table texts the extractor writes out
RECURSIVE Untagged(_, _)
Untagged(a, n) ==
    IF n > Len(a.yield.parts) THEN <<>>
    ELSE OrEmpty(a.yield.parts[n].text)
            \o (IF a.extractor = "pdfplumber" /\ ~a.yield.parts[n].tablesRaise
                THEN Join([k \in 1..Len(a.yield.parts[n].tables) |->
                              _format_table_text(a.yield.parts[n].tables[k])], <<>>)
                ELSE <<>>)
            \o Untagged(a, n + 1)

\* C25: the tags do not count toward the minimum: an extractor's text is
\* returned only when what its pages hold, without the page and table tags,
\* is longer than 50 characters after stripping; so pages that are all empty
\* never end the cascade.
C25_TagsNotCounted ==
    (xpc = "returned" /\ attempts # <<>>) =>
        Len(Strip(Untagged(LastAttempt, 1))) > MIN_VIABLE

\* C10: whenever read_document returns, the returned text is longer than the
\* 50-character threshold (and so non-empty).
C10_ReturnedTextViable == xpc = "returned" => Len(xresult) > 50

-----------------------------------------------------------------------------
(* Claims about _clean_financial_text (SpecClean) *)

\* C17: the text _clean_financial_text returns holds no carriage return, no
\* tab, no two spaces in a row and no three newlines in a row, and neither
\* starts nor ends with whitespace.
C17_WhitespaceNormalForm ==
    cleanOnce # Unset =>
        LET t == cleanOnce
        IN  /\ \A k \in 1..Len(t) : t[k] \notin {"\r", "\t"}
            /\ \A k \in 1..(Len(t) - 1) : ~(t[k] = " " /\ t[k + 1] = " ")
            /\ \A k \in 1..(Len(t) - 2) : ~(t[k] = "\n" /\ t[k + 1] = "\n" /\ t[k + 2] = "\n")
            /\ t # <<>> => (t[1] \notin Whitespace /\ t[Len(t)] \notin Whitespace)

\* C9: normalisation is idempotent: cleaning the cleaned text changes nothing.
C9_Idempotent == cleanTwice # Unset => cleanTwice = cleanOnce

====
